---- MODULE Spec2Model ----
(***************************************************************************)
(* State-machine model of ercot_scraper.py: main() iterates the configured *)
(* report sources and calls process_url twice per source; process_url      *)
(* renders the listing page, reads the payload name, selects the most      *)
(* recent link, downloads the archive, resets the per-source unzip folder, *)
(* persists and extracts the archive and loads the first file found.       *)
(* External collaborators (browser, HTTP server, archive bytes) are the     *)
(* environment: their outcomes are chosen nondeterministically.             *)
(***************************************************************************)
EXTENDS Integers, Sequences, FiniteSets, TLC

VARIABLES
    idx,                 \* position of main's for loop in urls (1-based)
    call,                \* 1: the call of line 241, 2: the call of line 242
    pc,                  \* control point inside main / process_url
    driver,              \* outcome of webdriver.Chrome in this call
    html,                \* rendered listing page of this call
    csv_file_name,       \* local of process_url
    most_recent_link,    \* local of process_url
    most_recent_posted,  \* local of process_url
    zip_response,        \* local of process_url
    zip_filename,        \* local of process_url
    exc,                 \* exception in flight in process_url
    handled,             \* except clause of process_url that printed
    ret,                 \* value returned by process_url
    steps,               \* external calls made by this call, in order
    unzipped,            \* filesystem: unzip folders and the files in them
    downloads,           \* filesystem: archive files under downloads/
    dataframes,          \* main's dict of tables
    report,              \* main's dict of reporting tuples
    retrievals           \* number of process_url calls started per source

vars == <<idx, call, pc, driver, html, csv_file_name, most_recent_link,
          most_recent_posted, zip_response, zip_filename, exc, handled, ret,
          steps, unzipped, downloads, dataframes, report, retrievals>>

locals == <<driver, html, csv_file_name, most_recent_link, most_recent_posted,
            zip_response, zip_filename, exc, handled, ret, steps>>

----------------------------------------------------------------------------
(* Bounds and configuration *)

\* Number of configured sources the model iterates (the code configures 5).
NumSources == 2

\* The keys of the urls dict, in insertion order.
urls == <<"Demand", "Solar", "Wind", "Reserves", "Outages">>

Keys == SubSeq(urls, 1, NumSources)

KeySet == {Keys[i] : i \in 1..NumSources}

\* Python's None for a string-valued or scalar local.
None == "None"

\* Python's None where the value would otherwise be a path.
NoPath == <<>>

----------------------------------------------------------------------------
(* Listing pages served by the renderer *)

\* Posted-at source texts: the two date/time cells joined by a space.
\* MinStr is "01/01/0001 12:00:00 AM"; the others are on a later day.
MinStr == [day |-> 0, hour |-> 12, ampm |-> "AM"]

AmStr == [day |-> 1, hour |-> 9, ampm |-> "AM"]

PmStr == [day |-> 1, hour |-> 5, ampm |-> "PM"]

\* A cell text that does not match the format.
BadStr == [day |-> 1, hour |-> 13, ampm |-> "n/a"]

\* A row without an <a> element.
NoAnchor == "no-anchor"

LinkA == "https://host/link/a.zip"

LinkB == "https://host/link/b.zip"

Row(p, a) == [posted |-> p, a |-> a]

\* Data rows of the listing table (header row already skipped).
ListingRows ==
    { <<>>,
      <<Row(MinStr, LinkA)>>,
      <<Row(PmStr, LinkA)>>,
      <<Row(AmStr, LinkA), Row(PmStr, LinkB)>>,
      <<Row(PmStr, LinkA), Row(PmStr, LinkB)>>,
      <<Row(PmStr, LinkA), Row(AmStr, NoAnchor)>>,
      <<Row(AmStr, NoAnchor)>>,
      <<Row(AmStr, LinkA), Row(BadStr, LinkB)>> }

Page(n, r) == [table |-> TRUE, name |-> n, rows |-> r]

\* A page without the reportTable.
NoTablePage == [table |-> FALSE, name |-> None, rows |-> <<>>]

\* The pages the renderer may return: no table, no td.name cell, every
\* listing under one payload name, and one listing under a second name.
Pages ==
    {NoTablePage, Page(None, <<Row(PmStr, LinkA)>>)}
    \cup {Page("DemandData", r) : r \in ListingRows}
    \cup {Page("SolarData", <<Row(PmStr, LinkA)>>)}

----------------------------------------------------------------------------
(* Archive responses and payload files *)

\* Responses to the archive GET: a status and a body that is a zip with
\* member files, or bytes that are not a zip archive.
Responses ==
    { [status |-> 200, zip |-> TRUE,  members |-> {"data.csv"}],
      [status |-> 200, zip |-> TRUE,  members |-> {"data.csv", "junk.bin"}],
      [status |-> 200, zip |-> FALSE, members |-> {}],
      [status |-> 404, zip |-> FALSE, members |-> {}],
      [status |-> 404, zip |-> TRUE,  members |-> {"data.csv"}] }

NoResponse == [status |-> 0, zip |-> FALSE, members |-> {}]

----------------------------------------------------------------------------
(* Pure functions of the module *)

\* datetime.datetime.min, counted in hours since 0001-01-01 00:00:00.
datetime_min == 0

\* datetime.strptime(posted_str, '%m/%d/%Y %I:%M:%S %p'): the 12-hour clock
\* value and the AM/PM marker give the hour of day; a text that does not
\* match the format raises ValueError (ok = FALSE).
strptime(s) ==
    IF s.hour \in 1..12 /\ s.ampm \in {"AM", "PM"}
    THEN [ok |-> TRUE,
          dt |-> s.day * 24 + (s.hour % 12)
                   + (IF s.ampm = "PM" THEN 12 ELSE 0)]
    ELSE [ok |-> FALSE, dt |-> datetime_min]

\* most_recent_posted.strftime("%Y%m%d_%H%M%S"): the date part and the
\* 24-hour time part of the timestamp.
strftime(dt) == <<dt \div 24, "_", dt % 24>>

\* The for loop of get_most_recent_link from row i on, with the running
\* maximum and its link. Any exception raised in the loop (ValueError from
\* strptime, TypeError from row.find('a')['href'] on a row without anchor)
\* is re-raised as DataProcessingError.
RECURSIVE scan_rows(_, _, _, _, _)
scan_rows(rows, i, posted, link, file_list) ==
    IF i > Len(rows)
    THEN [exc |-> None, link |-> link, posted |-> posted,
          file_list |-> file_list]
    ELSE LET posted_dt == strptime(rows[i].posted)
             failure == [exc |-> "DataProcessingError", link |-> None,
                         posted |-> datetime_min, file_list |-> <<>>]
         IN  IF ~posted_dt.ok THEN failure
             ELSE IF posted_dt.dt > posted
                  THEN IF rows[i].a = NoAnchor THEN failure
                       ELSE scan_rows(rows, i + 1, posted_dt.dt, rows[i].a,
                                      Append(file_list, rows[i].posted))
                  ELSE scan_rows(rows, i + 1, posted, link,
                                 Append(file_list, rows[i].posted))

get_most_recent_link(rows) == scan_rows(rows, 1, datetime_min, None, <<>>)

\* The exception get_rendered_html's inner code raises: MissingDependencyError
\* when webdriver.Chrome raises WebDriverException, the driver's own
\* exception when driver.get fails, none otherwise.
rendered_html_inner(d, g) ==
    IF d = "WebDriverException" THEN "MissingDependencyError"
    ELSE IF g # "ok" THEN "WebDriverException"
    ELSE None

\* The exception that leaves get_rendered_html: the outer "except Exception"
\* re-raises whatever the body raised as DataFetchingError.
get_rendered_html_raises(d, g) ==
    IF rendered_html_inner(d, g) # None THEN "DataFetchingError" ELSE None

\* get_csv_file_name: the text of the td.name cell of reportTable;
\* a missing table or cell raises DataProcessingError.
get_csv_file_name_raises(page) ==
    IF ~page.table \/ page.name = None THEN "DataProcessingError" ELSE None

\* Variant of UnzipFolder that leaves the key out of the folder name.
UnzipFolder_shared(url_key) == <<"downloads", "unzipped_files">>

\* The per-source unzip folder, downloads/unzipped_files/<url_key>.
UnzipFolder(url_key) == <<"downloads", "unzipped_files", url_key>>

\* The archive path, downloads/<csv_file_name>_<YYYYMMDD_HHMMSS>.zip.
ZipFilename(name, posted) == <<"downloads", name, "_", strftime(posted), ".zip">>

\* Variant of clear_unzip_folder that only makes sure the folder exists and
\* leaves its files in place.
clear_unzip_folder_keep(fsys, folder) ==
    [d \in (DOMAIN fsys) \cup {folder} |->
        IF d \in DOMAIN fsys THEN fsys[d] ELSE {}]

\* clear_unzip_folder: rmtree the folder if it exists, then makedirs it.
clear_unzip_folder(fsys, folder) ==
    LET removed == [d \in (DOMAIN fsys) \ {folder} |-> fsys[d]]
    IN  [d \in (DOMAIN removed) \cup {folder} |->
            IF d = folder THEN {} ELSE removed[d]]

\* zip_ref.extractall(unzip_folder): the members are added to the folder.
extractall(fsys, folder, members) ==
    [fsys EXCEPT ![folder] = fsys[folder] \cup members]

\* open(zip_filename, 'wb').write(content): creates or overwrites the file.
write_file(files, path, content) ==
    [p \in (DOMAIN files) \cup {path} |->
        IF p = path THEN content ELSE files[p]]

\* pd.read_csv on a payload file: a table, or a parser error.
read_csv(f) ==
    IF f = "data.csv"
    THEN [ok |-> TRUE, columns |-> {"value"}, nrows |-> 2]
    ELSE [ok |-> FALSE, columns |-> {}, nrows |-> 0]

\* df['report_name'] = url_key: the column is created (or overwritten) with
\* the scalar in every row; on a table without rows the column is empty.
set_report_name(df, url_key) ==
    [columns |-> df.columns \cup {"report_name"},
     nrows |-> df.nrows,
     report_name |-> [i \in 1..df.nrows |-> url_key]]

\* Variant of empty_df that returns pd.DataFrame() as it is.
empty_df_no_column(url_key) ==
    [columns |-> {}, nrows |-> 0, report_name |-> <<>>]

\* Lines 228-229: pd.DataFrame() with the report_name column set.
empty_df(url_key) ==
    set_report_name([columns |-> {}, nrows |-> 0], url_key)

\* Variant of except_clause without the final "except Exception".
except_clause_no_catch_all(e) ==
    IF e \in {"DataFetchingError", "DataProcessingError",
              "MissingDependencyError"}
    THEN e ELSE "unhandled"

\* The except clauses of process_url, tried in order; the last one catches
\* every other Exception subclass.
except_clause(e) ==
    IF e = "DataFetchingError" THEN "DataFetchingError"
    ELSE IF e = "DataProcessingError" THEN "DataProcessingError"
    ELSE IF e = "MissingDependencyError" THEN "MissingDependencyError"
    ELSE "Exception"

----------------------------------------------------------------------------
(* main and process_url *)

EmptyMap == [x \in {} |-> None]

\* d[k] = v on a Python dict.
dict_set(d, k, v) ==
    [x \in (DOMAIN d) \cup {k} |-> IF x = k THEN v ELSE d[x]]

\* The source main's loop is at.
url_key == Keys[idx]

\* process_url's locals before the call has run.
LocalsUnset ==
    /\ driver = None
    /\ html = NoTablePage
    /\ csv_file_name = None
    /\ most_recent_link = None
    /\ most_recent_posted = datetime_min
    /\ zip_response = NoResponse
    /\ zip_filename = NoPath
    /\ exc = None
    /\ handled = None
    /\ ret = <<>>
    /\ steps = <<>>

\* The locals of a finished call are gone.
ResetLocals ==
    /\ driver' = None
    /\ html' = NoTablePage
    /\ csv_file_name' = None
    /\ most_recent_link' = None
    /\ most_recent_posted' = datetime_min
    /\ zip_response' = NoResponse
    /\ zip_filename' = NoPath
    /\ exc' = None
    /\ handled' = None
    /\ ret' = <<>>
    /\ steps' = <<>>

Init ==
    /\ idx = 1
    /\ call = 1
    /\ pc = "main"
    /\ LocalsUnset
    /\ unzipped = EmptyMap
    /\ downloads = EmptyMap
    /\ dataframes = EmptyMap
    /\ report = EmptyMap
    /\ retrievals = [k \in KeySet |-> 0]

\* An exception is raised inside process_url's try block.
Raise(e) ==
    /\ exc' = e
    /\ pc' = "except"

\* main, lines 239-242: the loop body calls process_url(url_key, url_value).
CallProcessUrl ==
    /\ pc = "main"
    /\ idx <= NumSources
    /\ pc' = "get_rendered_html"
    /\ retrievals' = [retrievals EXCEPT ![url_key] = @ + 1]
    /\ UNCHANGED <<idx, call, locals, unzipped, downloads, dataframes, report>>

\* Line 179: html = get_rendered_html(url_value, webdriver_path).
RenderHtml ==
    /\ pc = "get_rendered_html"
    /\ \E d \in {"started", "WebDriverException"},
          g \in {"ok", "WebDriverException"},
          page \in Pages :
            /\ driver' = d
            /\ steps' = Append(steps, "webdriver.Chrome")
            /\ IF get_rendered_html_raises(d, g) # None
               THEN /\ Raise(get_rendered_html_raises(d, g))
                    /\ html' = html
               ELSE /\ html' = page
                    /\ pc' = "get_csv_file_name"
                    /\ exc' = exc
    /\ UNCHANGED <<idx, call, csv_file_name, most_recent_link,
                   most_recent_posted, zip_response, zip_filename, handled,
                   ret, unzipped, downloads, dataframes, report, retrievals>>

\* Lines 181-182: csv_file_name = get_csv_file_name(soup).
GetCsvFileName ==
    /\ pc = "get_csv_file_name"
    /\ IF get_csv_file_name_raises(html) # None
       THEN /\ Raise(get_csv_file_name_raises(html))
            /\ csv_file_name' = csv_file_name
       ELSE /\ csv_file_name' = html.name
            /\ pc' = "get_most_recent_link"
            /\ exc' = exc
    /\ UNCHANGED <<idx, call, driver, html, most_recent_link,
                   most_recent_posted, zip_response, zip_filename, handled,
                   ret, steps, unzipped, downloads, dataframes, report,
                   retrievals>>

\* Lines 184-187: rows of the table, then get_most_recent_link(rows).
GetMostRecentLink ==
    /\ pc = "get_most_recent_link"
    /\ LET r == get_most_recent_link(html.rows)
       IN  IF r.exc # None
           THEN /\ Raise(r.exc)
                /\ UNCHANGED <<most_recent_link, most_recent_posted>>
           ELSE /\ most_recent_link' = r.link
                /\ most_recent_posted' = r.posted
                /\ pc' = "requests_get"
                /\ exc' = exc
    /\ UNCHANGED <<idx, call, driver, html, csv_file_name, zip_response,
                   zip_filename, handled, ret, steps, unzipped, downloads,
                   dataframes, report, retrievals>>

\* Line 189: zip_response = requests.get(most_recent_link). A None url makes
\* requests raise MissingSchema before anything is sent; a transport failure
\* raises ConnectionError; any HTTP status is returned as a response.
RequestsGet ==
    /\ pc = "requests_get"
    /\ steps' = Append(steps, "requests.get")
    /\ IF most_recent_link = None
       THEN /\ Raise("MissingSchema")
            /\ zip_response' = zip_response
       ELSE \E t \in {"ok", "ConnectionError"}, resp \in Responses :
              IF t # "ok"
              THEN /\ Raise(t)
                   /\ zip_response' = zip_response
              ELSE /\ zip_response' = resp
                   /\ pc' = "clear_unzip_folder"
                   /\ exc' = exc
    /\ UNCHANGED <<idx, call, driver, html, csv_file_name, most_recent_link,
                   most_recent_posted, zip_filename, handled, ret, unzipped,
                   downloads, dataframes, report, retrievals>>

\* Lines 191-199: clear_unzip_folder(unzip_folder) and the two makedirs
\* with exist_ok, which find the folders already there.
ClearUnzipFolder ==
    /\ pc = "clear_unzip_folder"
    /\ unzipped' = clear_unzip_folder(unzipped, UnzipFolder(url_key))
    /\ steps' = Append(steps, "clear_unzip_folder")
    /\ pc' = "write_zip"
    /\ UNCHANGED <<idx, call, driver, html, csv_file_name, most_recent_link,
                   most_recent_posted, zip_response, zip_filename, exc,
                   handled, ret, downloads, dataframes, report, retrievals>>

\* Lines 201-206: the archive is written under its computed name.
WriteZip ==
    /\ pc = "write_zip"
    /\ zip_filename' = ZipFilename(csv_file_name, most_recent_posted)
    /\ downloads' = write_file(downloads, zip_filename',
                               [zip |-> zip_response.zip,
                                members |-> zip_response.members])
    /\ steps' = Append(steps, "write")
    /\ pc' = "extractall"
    /\ UNCHANGED <<idx, call, driver, html, csv_file_name, most_recent_link,
                   most_recent_posted, zip_response, exc, handled, ret,
                   unzipped, dataframes, report, retrievals>>

\* Lines 208-209: zipfile.ZipFile(zip_filename) raises BadZipFile on bytes
\* that are no archive; otherwise extractall unpacks into the unzip folder.
ExtractAll ==
    /\ pc = "extractall"
    /\ steps' = Append(steps, "zipfile.ZipFile")
    /\ IF ~downloads[zip_filename].zip
       THEN /\ Raise("BadZipFile")
            /\ unzipped' = unzipped
       ELSE /\ unzipped' = extractall(unzipped, UnzipFolder(url_key),
                                      downloads[zip_filename].members)
            /\ pc' = "read_csv"
            /\ exc' = exc
    /\ UNCHANGED <<idx, call, driver, html, csv_file_name, most_recent_link,
                   most_recent_posted, zip_response, zip_filename, handled,
                   ret, downloads, dataframes, report, retrievals>>

\* Lines 212-216: os.listdir(unzip_folder)[0] (arbitrary order; IndexError on
\* an empty folder), pd.read_csv, the report_name column, the return.
ReadCsv ==
    /\ pc = "read_csv"
    /\ steps' = Append(steps, "os.listdir")
    /\ IF unzipped[UnzipFolder(url_key)] = {}
       THEN /\ Raise("IndexError")
            /\ ret' = ret
       ELSE \E f \in unzipped[UnzipFolder(url_key)] :
              IF ~read_csv(f).ok
              THEN /\ Raise("ParserError")
                   /\ ret' = ret
              ELSE /\ ret' = <<set_report_name(read_csv(f), url_key),
                               zip_filename, UnzipFolder(url_key),
                               csv_file_name>>
                   /\ pc' = "return"
                   /\ exc' = exc
    /\ UNCHANGED <<idx, call, driver, html, csv_file_name, most_recent_link,
                   most_recent_posted, zip_response, zip_filename, handled,
                   unzipped, downloads, dataframes, report, retrievals>>

\* Lines 218-230: the matching except clause prints, then the empty table
\* and three None are returned. An exception no clause matches leaves
\* process_url and ends main.
Except ==
    /\ pc = "except"
    /\ handled' = except_clause(exc)
    /\ IF except_clause(exc) = "unhandled"
       THEN /\ pc' = "aborted"
            /\ ret' = ret
       ELSE /\ ret' = <<empty_df(url_key), NoPath, NoPath, None>>
            /\ pc' = "return"
    /\ UNCHANGED <<idx, call, driver, html, csv_file_name, most_recent_link,
                   most_recent_posted, zip_response, zip_filename, exc,
                   steps, unzipped, downloads, dataframes, report,
                   retrievals>>

\* Line 241: dataframes[url_key] = process_url(url_key, url_value)[0].
StoreDataframe ==
    /\ pc = "return"
    /\ call = 1
    /\ dataframes' = dict_set(dataframes, url_key, ret[1])
    /\ call' = 2
    /\ pc' = "main"
    /\ ResetLocals
    /\ UNCHANGED <<idx, unzipped, downloads, report, retrievals>>

\* Line 242: report[url_key] = process_url(url_key, url_value)[1:], and the
\* loop moves to the next source.
StoreReport ==
    /\ pc = "return"
    /\ call = 2
    /\ report' = dict_set(report, url_key, <<ret[2], ret[3], ret[4]>>)
    /\ call' = 1
    /\ idx' = idx + 1
    /\ pc' = "main"
    /\ ResetLocals
    /\ UNCHANGED <<unzipped, downloads, dataframes, retrievals>>

\* Lines 245-251: the loop is over; the summary is printed.
Finish ==
    /\ pc = "main"
    /\ idx > NumSources
    /\ pc' = "done"
    /\ UNCHANGED <<idx, call, locals, unzipped, downloads, dataframes,
                   report, retrievals>>

Next ==
    \/ CallProcessUrl
    \/ RenderHtml
    \/ GetCsvFileName
    \/ GetMostRecentLink
    \/ RequestsGet
    \/ ClearUnzipFolder
    \/ WriteZip
    \/ ExtractAll
    \/ ReadCsv
    \/ Except
    \/ StoreDataframe
    \/ StoreReport
    \/ Finish

Spec == Init /\ [][Next]_vars

\* main runs on one thread and every call it makes returns or raises, so a
\* step that is possible is eventually taken.
FairSpec == Spec /\ WF_vars(Next)

----------------------------------------------------------------------------
(* Properties *)

\* The external calls this process_url call has made so far.
Did(step) == \E i \in DOMAIN steps : steps[i] = step

\* A stored table carries a report_name column holding key k in every row.
Labelled(df, k) ==
    /\ "report_name" \in df.columns
    /\ DOMAIN df.report_name = 1..df.nrows
    /\ \A i \in 1..df.nrows : df.report_name[i] = k

\* A row get_most_recent_link can read: parseable timestamp and an anchor.
WellFormedRow(r) == strptime(r.posted).ok /\ r.a # NoAnchor

\* get_most_recent_link has returned normally in this call.
SelectionReturned ==
    pc \in {"requests_get", "clear_unzip_folder", "write_zip", "extractall",
            "read_csv"}

\* get_most_recent_link has run (returned or raised) on html.rows.
SelectionRan == csv_file_name # None /\ pc # "get_most_recent_link"

\* C1: after main() finishes the manifest has exactly one entry per
\* configured key and no other, and every table, with or without rows,
\* carries the report_name column labelled with its key.
C1_ManifestComplete ==
    pc = "done" =>
        /\ DOMAIN dataframes = KeySet
        /\ \A k \in KeySet : Labelled(dataframes[k], k)

\* C1 witness: a finished run with a failed source (empty table) and a
\* loaded one.
C1_Witness ==
    /\ pc = "done"
    /\ \E j, k \in KeySet :
         dataframes[j].nrows = 0 /\ dataframes[k].nrows > 0

\* C2: no failure escapes process_url or stops the run: main never aborts,
\* every source gets its entries and the run finishes; entries are added in
\* the configured order; an entry once stored is not changed by the
\* processing of other sources; and a table returned by a call is the empty
\* table of its key or the labelled load of a file of its own archive.
C2_FailureIsolated ==
    /\ [](pc # "aborted")
    /\ <>(pc = "done" /\ DOMAIN dataframes = KeySet /\ DOMAIN report = KeySet)
    /\ [][DOMAIN dataframes' # DOMAIN dataframes =>
            DOMAIN dataframes' =
              {Keys[i] : i \in 1..(Cardinality(DOMAIN dataframes) + 1)}]_vars
    /\ [][\A k \in DOMAIN dataframes :
            k \in DOMAIN dataframes' /\ dataframes'[k] = dataframes[k]]_vars
    /\ [](pc = "return" =>
            \/ ret[1] = empty_df(url_key)
            \/ \E f \in zip_response.members :
                 /\ read_csv(f).ok
                 /\ ret[1] = set_report_name(read_csv(f), url_key))

\* C2 witness: the first source failed, the next one was still processed
\* and loaded its table.
C2_Witness ==
    /\ pc = "done"
    /\ dataframes[Keys[1]].nrows = 0
    /\ report[Keys[1]][1] = NoPath
    /\ dataframes[Keys[2]].nrows > 0
    /\ report[Keys[2]][1] # NoPath

\* C3: in one run each source is retrieved exactly once, and that retrieval
\* feeds both the table and the reporting tuple, so the tuple's fields are
\* absent exactly when the table is the empty failure table.
C3_SingleRetrieval ==
    pc = "done" =>
        \A k \in KeySet :
            /\ retrievals[k] = 1
            /\ (report[k][1] = NoPath) <=> (dataframes[k] = empty_df(k))

\* C4: on a non-empty sequence of well-formed rows the selection returns the
\* link and timestamp of the first row whose posted_at is the maximum.
C4_SelectsMaximum ==
    (/\ SelectionReturned
     /\ Len(html.rows) >= 1
     /\ \A i \in DOMAIN html.rows : WellFormedRow(html.rows[i]))
    => \E i \in DOMAIN html.rows :
         /\ \A j \in DOMAIN html.rows :
              strptime(html.rows[j].posted).dt <= strptime(html.rows[i].posted).dt
         /\ \A j \in 1..(i - 1) :
              strptime(html.rows[j].posted).dt < strptime(html.rows[i].posted).dt
         /\ most_recent_link = html.rows[i].a
         /\ most_recent_posted = strptime(html.rows[i].posted).dt

\* C5: when the listing table has no data rows the selection fails and the
\* pipeline stops there: requests.get is never invoked in that call.
C5_EmptyManifestStops ==
    (SelectionRan /\ html.rows = <<>>)
    => /\ exc = "DataProcessingError"
       /\ pc \in {"except", "return"}
       /\ ~Did("requests.get")

\* C6: whenever a call reaches extraction, the source's unzip folder holds
\* only the files unpacked from this call's archive, nothing left by an
\* earlier run.
C6_WorkspaceOnlyThisRun ==
    Did("zipfile.ZipFile") =>
        /\ UnzipFolder(url_key) \in DOMAIN unzipped
        /\ unzipped[UnzipFolder(url_key)] =
             (IF zip_response.zip THEN zip_response.members ELSE {})

\* C6 witness: the second run of a source has extracted an archive with other
\* contents than the archive its first run left under another name.
C6_Witness ==
    /\ call = 2
    /\ idx = 1
    /\ pc = "read_csv"
    /\ zip_response.members = {"data.csv"}
    /\ \E p \in DOMAIN downloads :
         p # zip_filename /\ downloads[p].members = {"data.csv", "junk.bin"}

\* C7: when the browser driver cannot start, the failure reaching the
\* except clauses of process_url is MissingDependencyError, not the
\* DataFetchingError of a failed page load.
C7_MissingDependencyDistinct ==
    (driver = "WebDriverException" /\ pc \in {"except", "return"})
    => exc = "MissingDependencyError"

\* C8: a non-success status of the archive download fails the call at the
\* download step as a fetch failure: the unzip folder is not reset, no
\* archive is written and no extraction is attempted with that response.
C8_BadStatusStopsPipeline ==
    zip_response.status = 404
    => /\ exc = "DataFetchingError"
       /\ ~Did("clear_unzip_folder")
       /\ ~Did("write")
       /\ ~Did("zipfile.ZipFile")

\* C9: if any row, at any position, has an unparseable timestamp or no
\* anchor, the selection fails with DataProcessingError and selects no link.
C9_AllOrNothing ==
    (SelectionRan /\ \E i \in DOMAIN html.rows : ~WellFormedRow(html.rows[i]))
    => /\ exc = "DataProcessingError"
       /\ most_recent_link = None

\* The reporting tuples of two distinct sources that both have paths.
ReportedBoth(j, k) ==
    /\ j # k
    /\ report[j][1] # NoPath
    /\ report[k][1] # NoPath

\* C10 (as stated): two distinct sources write disjoint paths: their unzip
\* folders differ and their archive files have different names.
C10_DisjointPaths ==
    \A j, k \in DOMAIN report :
        ReportedBoth(j, k) =>
            /\ report[j][2] # report[k][2]
            /\ report[j][1] # report[k][1]

\* Timestamps get_most_recent_link can return on the modelled pages.
PostedValues == {strptime(s).dt : s \in {MinStr, AmStr, PmStr}}

\* C10 (amended): unzip folders of distinct sources differ and a call only
\* changes its own source's folder; the archive a call writes is the one
\* named by the payload name and posting timestamp of its page, a name no
\* other (name, timestamp) pair gives, so two sources share an archive path
\* only when their pages report the same payload name.
C10_WorkspacesDisjointArchivesByName ==
    /\ [](\A j, k \in DOMAIN report :
            ReportedBoth(j, k) =>
                /\ report[j][2] # report[k][2]
                /\ (report[j][1] = report[k][1] => report[j][3] = report[k][3]))
    /\ [](zip_filename # NoPath =>
            \A n \in {"DemandData", "SolarData"}, t \in PostedValues :
                (ZipFilename(n, t) = zip_filename)
                  <=> (n = csv_file_name /\ t = most_recent_posted))
    /\ [][\A d \in DOMAIN unzipped' :
            (idx > NumSources \/ d # UnzipFolder(url_key)) =>
                d \in DOMAIN unzipped /\ unzipped'[d] = unzipped[d]]_vars
    /\ [][\A p \in DOMAIN downloads' :
            (p \notin DOMAIN downloads \/ downloads'[p] # downloads[p]) =>
                p = ZipFilename(csv_file_name, most_recent_posted)]_vars

\* C10 witness: two sources whose pages reported the same payload name and
\* timestamp have written the same archive path into distinct folders.
C10_Witness ==
    /\ pc = "done"
    /\ \E j, k \in DOMAIN report :
         /\ ReportedBoth(j, k)
         /\ report[j][1] = report[k][1]
         /\ report[j][2] # report[k][2]

====
